---- MODULE Spec2Model ----
(***************************************************************************)
(* Model of pymodbus/server/async.py: the Twisted Modbus server.           *)
(*                                                                         *)
(* ModbusProtocol (connectionMade, connectionLost, dataReceived, execute,  *)
(* send) and ModbusServerFactory are modelled from the source.  The framer,*)
(* the decoder, the request objects and the datastore live in other        *)
(* modules of pymodbus (pymodbus.transaction, pymodbus.factory,            *)
(* pymodbus.pdu, pymodbus.datastore); they are modelled from the contract  *)
(* the specification gives for them, over a small wire format:             *)
(*   request frame  = << header, function_code >>                          *)
(*   header         = transaction_id * 2 + unit_id                         *)
(*   response pdu   = << header, function_code (+ ExceptionFlag) >>        *)
(*                    \o payload                                           *)
(***************************************************************************)
EXTENDS Integers, Sequences, FiniteSets, TLC

\* ---------------------------------------------------------------- bounds
\* total number of bytes delivered to all connections in one behaviour
MaxBytes == 4
\* longest byte string one dataReceived call delivers
MaxChunk == 4

\* ------------------------------------------------------- wire format
\* the handler objects (one slot per logical connection)
Conn == {1, 2}
\* the values one byte of input can take
Byte == 0 .. 3
\* names for the framer instances alive at one time: one per handler and
\* one more, for the instance connectionMade builds while the handler still
\* refers to the one before
FramerIds == 1 .. (Cardinality(Conn) + 1)
\* length of one request frame on the wire
FrameLen == 2
\* function codes: the decoder knows ReadFc, WriteFc and FifoFc; every
\* other code is undecodable and the framer drops the frame
ReadFc == 1
WriteFc == 2
FifoFc == 3
\* added to the function code of an exception response (pdu.py: 0x80)
ExceptionFlag == 4
\* ModbusExceptions codes
IllegalAddress == 2
SlaveFailure == 4
\* Defaults.TransactionId / Defaults.UnitId carried by a new pdu
DefaultId == 0
\* the decoder's answer for a frame it cannot decode
NoRequest == [function_code |-> 0]

VARIABLES
    open,       \* open[c]: the transport of handler c is connected
    framer,     \* framer[c]: the framer instance self.framer (0: not set)
    fbuf,       \* fbuf[f]: bytes buffered by framer instance f (empty for
                \* an instance no handler refers to)
    store,      \* factory.store: unit id -> holding registers
    \* the next five describe the connection c has now; they are empty
    \* while c has none
    rx,         \* rx[c]: bytes delivered to c since its connectionMade
    calls,      \* calls[c]: dataReceived calls on c since its connectionMade
                \* (0, 1, or 2 for two and more)
    yielded,    \* yielded[c]: requests the framer gave to c.execute since then
    sent,       \* sent[c]: messages handed to c.send since then
    written,    \* written[c]: pdus written to the transport of c since then
    log,        \* log: the calls of execute so far, on all connections, in
                \* the order the reactor made them: the connection, the
                \* request, the store before and after, the messages sent
    stale,      \* stale[c]: at its connectionMade the handler object still
                \* had the framer of an earlier connection, a partial
                \* frame buffered in it
    fdec,       \* framer instance -> the decoder it was constructed with
    args,       \* the arguments ModbusServerFactory was called with
    factory,    \* the ModbusServerFactory object (NoFactory before __init__)
    delivered,  \* number of bytes delivered so far
    escaped     \* an exception left execute and reached dataReceived

vars == << open, framer, fbuf, store, rx, calls, yielded, sent, written,
           log, stale, fdec, args, factory, delivered, escaped >>

\* ------------------------------------------------------------ decoder
Header(tid, uid) == tid * 2 + uid
HeaderTid(h) == h \div 2
HeaderUid(h) == h % 2

\* ServerDecoder.decode: bytes of one frame -> request, or NoRequest
decode(frame) ==
    IF frame[2] \in {ReadFc, WriteFc, FifoFc}
    THEN [transaction_id |-> HeaderTid(frame[1]),
          unit_id        |-> HeaderUid(frame[1]),
          function_code  |-> frame[2]]
    ELSE NoRequest

\* framer.buildPacket: response message -> wire bytes
buildPacket(message) ==
    << Header(message.transaction_id, message.unit_id),
       message.function_code >> \o message.payload

\* ------------------------------------------------------------ store
\* the datastore context given to the factory: unit 1 with two holding
\* registers, no unit 0
InitStore == (1 :> << 10, 20 >>)

\* ------------------------------------------------------------ requests
\* request.doException(code): exception response, ids still the defaults
doException(request, code) ==
    [transaction_id |-> DefaultId, unit_id |-> DefaultId,
     function_code  |-> request.function_code + ExceptionFlag,
     payload        |-> << code >>]

\* value a write request stores in register 1
WriteValue(v) == IF v = 10 THEN 11 ELSE 10

\* request.execute(context): the outcome of running request on the
\* registers regs of one unit
RequestExecute(request, regs) ==
    CASE request.function_code = ReadFc ->
           [raised |-> FALSE, regs |-> regs,
            response |-> [transaction_id |-> DefaultId, unit_id |-> DefaultId,
                          function_code |-> ReadFc, payload |-> regs]]
      [] request.function_code = WriteFc ->
           [raised |-> FALSE,
            regs |-> [regs EXCEPT ![1] = WriteValue(@)],
            response |-> [transaction_id |-> DefaultId, unit_id |-> DefaultId,
                          function_code |-> WriteFc,
                          payload |-> << WriteValue(regs[1]) >>]]
      [] OTHER ->
           [raised |-> TRUE, regs |-> regs, response |-> NoRequest]

\* the lookup creating the unit it does not find, before it fails
TryStoreAutoCreate(request, st) ==
    IF request.unit_id \notin DOMAIN st
    THEN [raised |-> TRUE,
          store |-> (request.unit_id :> << 0, 0 >>) @@ st,
          response |-> NoRequest]
    ELSE LET r == RequestExecute(request, st[request.unit_id])
         IN  [raised |-> r.raised,
              store |-> [st EXCEPT ![request.unit_id] = r.regs],
              response |-> r.response]

\* the body of the try block of execute: look the unit up, run the request
TryStore(request, st) ==
    IF request.unit_id \notin DOMAIN st
    THEN [raised |-> TRUE, store |-> st, response |-> NoRequest]
    ELSE LET r == RequestExecute(request, st[request.unit_id])
         IN  [raised |-> r.raised,
              store |-> [st EXCEPT ![request.unit_id] = r.regs],
              response |-> r.response]

\* ------------------------------------------------------------ factory
\* Python's None as an argument
None == [type |-> "NoneType"]

\* the identity of a new ModbusControlBlock: every field empty
DefaultIdentity == [VendorName |-> "", ProductCode |-> ""]

\* the values the identity argument is drawn from: None, device
\* identifications, and objects of other types that carry the same fields
IdentityArgs ==
    {None} \cup
    [type : {"ModbusDeviceIdentification", "dict", "str"},
     VendorName : {"", "pymodbus", "acme"},
     ProductCode : {"", "PM"}]

\* the values the framer and the store arguments are drawn from
FramerArgs == {None, [type |-> "ModbusSocketFramer"],
               [type |-> "ModbusAsciiFramer"]}
StoreArgs == {None, [type |-> "ModbusServerContext"]}

\* isinstance(identity, ModbusDeviceIdentification)
IsIdentification(identity) == identity.type = "ModbusDeviceIdentification"

\* control.Identity.update(identity)
IdentityUpdate(old, identity) ==
    [VendorName |-> identity.VendorName, ProductCode |-> identity.ProductCode]

\* __init__ applying every identity that is not None
FactoryInitAnyIdentity(a) ==
    [built   |-> TRUE,
     decoder |-> "ServerDecoder",
     framer  |-> IF a.framer = None THEN "ModbusSocketFramer"
                                    ELSE a.framer.type,
     store   |-> IF a.store = None THEN "default" ELSE "given",
     control |-> [Identity |->
                    IF a.identity # None
                    THEN IdentityUpdate(DefaultIdentity, a.identity)
                    ELSE DefaultIdentity]]

\* ModbusServerFactory.__init__(store, framer, identity)
FactoryInit(a) ==
    [built   |-> TRUE,
     decoder |-> "ServerDecoder",
     framer  |-> IF a.framer = None THEN "ModbusSocketFramer"
                                    ELSE a.framer.type,
     store   |-> IF a.store = None THEN "default" ELSE "given",
     control |-> [Identity |->
                    IF IsIdentification(a.identity)
                    THEN IdentityUpdate(DefaultIdentity, a.identity)
                    ELSE DefaultIdentity]]

\* no factory object yet
NoFactory == [built |-> FALSE]

\* the arguments of StartTcpServer(context)
TcpArgs == [store |-> [type |-> "ModbusServerContext"],
            framer |-> [type |-> "ModbusSocketFramer"],
            identity |-> None]

\* ------------------------------------------------------------ handler
\* one transport kept for all handlers instead of one per handler
TransportOfFirst(c) == 1

\* self.transport of handler c
TransportOf(c) == c

\* send writing the packet to the transport a second time
sendTwice(c, message, H) ==
    [H EXCEPT !.sent[c] = Append(@, message),
              !.written[TransportOf(c)] =
                  Append(Append(@, buildPacket(message)),
                         buildPacket(message))]

\* ModbusProtocol.send
send(c, message, H) ==
    [H EXCEPT !.sent[c] = Append(@, message),
              !.written[TransportOf(c)] = Append(@, buildPacket(message))]

\* execute with the two ids copied inside the try block only, so that the
\* exception response keeps the ids doException gave it
executeIdsInTry(c, request, H) ==
    LET t == TryStore(request, H.store)
        stamped == [t.response EXCEPT
                      !.transaction_id = request.transaction_id,
                      !.unit_id = request.unit_id]
        response == IF t.raised THEN doException(request, SlaveFailure)
                                ELSE stamped
    IN  send(c, response, [H EXCEPT !.store = t.store])

\* execute answering a missing unit with another exception code than a
\* failing store operation
executeCodeByCause(c, request, H) ==
    LET t == TryStore(request, H.store)
        code == IF request.unit_id \notin DOMAIN H.store
                THEN IllegalAddress ELSE SlaveFailure
        response == IF t.raised THEN doException(request, code)
                                ELSE t.response
        stamped == [response EXCEPT
                      !.transaction_id = request.transaction_id,
                      !.unit_id = request.unit_id]
    IN  send(c, stamped, [H EXCEPT !.store = t.store])

\* execute catching the KeyError of the lookup only: a failure of
\* request.execute leaves execute as an exception
executeCatchKeyError(c, request, H) ==
    LET t == TryStore(request, H.store)
        response == IF t.raised THEN doException(request, SlaveFailure)
                                ELSE t.response
        stamped == [response EXCEPT
                      !.transaction_id = request.transaction_id,
                      !.unit_id = request.unit_id]
    IN  IF t.raised /\ request.unit_id \in DOMAIN H.store
        THEN [H EXCEPT !.escaped = TRUE]
        ELSE send(c, stamped, [H EXCEPT !.store = t.store])

\* execute that logs a failure and returns without answering
executeSilentOnError(c, request, H) ==
    LET t == TryStore(request, H.store)
        stamped == [t.response EXCEPT
                      !.transaction_id = request.transaction_id,
                      !.unit_id = request.unit_id]
    IN  IF t.raised THEN H
        ELSE send(c, stamped, [H EXCEPT !.store = t.store])

\* execute putting a new datastore in place of the one that failed
executeResetOnError(c, request, H) ==
    LET t == TryStore(request, H.store)
        response == IF t.raised THEN doException(request, SlaveFailure)
                                ELSE t.response
        stamped == [response EXCEPT
                      !.transaction_id = request.transaction_id,
                      !.unit_id = request.unit_id]
    IN  send(c, stamped,
             [H EXCEPT !.store = IF t.raised THEN InitStore ELSE t.store])

\* execute running the request on a copy of the unit's context
executeOnCopy(c, request, H) ==
    LET t == TryStore(request, H.store)
        response == IF t.raised THEN doException(request, SlaveFailure)
                                ELSE t.response
        stamped == [response EXCEPT
                      !.transaction_id = request.transaction_id,
                      !.unit_id = request.unit_id]
    IN  send(c, stamped, H)

\* execute numbering its responses itself instead of copying the
\* transaction id of the request
executeOwnTid(c, request, H) ==
    LET t == TryStore(request, H.store)
        response == IF t.raised THEN doException(request, SlaveFailure)
                                ELSE t.response
        stamped == [response EXCEPT
                      !.transaction_id = Len(H.sent[c]) % 2,
                      !.unit_id = request.unit_id]
    IN  send(c, stamped, [H EXCEPT !.store = t.store])

\* execute interleaved with the callbacks of other requests: the context
\* it works on was looked up before the earlier requests had run, and is
\* written back after them
executeInterleaved(c, request, H) ==
    LET seen == IF H.log = << >> THEN H.store ELSE H.log[1].before
        t == TryStore(request, seen)
        response == IF t.raised THEN doException(request, SlaveFailure)
                                ELSE t.response
        stamped == [response EXCEPT
                      !.transaction_id = request.transaction_id,
                      !.unit_id = request.unit_id]
    IN  send(c, stamped, [H EXCEPT !.store = t.store])

\* execute cutting the payload of the store's response to its first value
executeHeadOnly(c, request, H) ==
    LET t == TryStore(request, H.store)
        response == IF t.raised THEN doException(request, SlaveFailure)
                                ELSE t.response
        stamped == [response EXCEPT
                      !.transaction_id = request.transaction_id,
                      !.unit_id = request.unit_id,
                      !.payload = << Head(@) >>]
    IN  send(c, stamped, [H EXCEPT !.store = t.store])

\* ModbusProtocol.execute
execute(c, request, H) ==
    LET t == TryStore(request, H.store)
        response == IF t.raised THEN doException(request, SlaveFailure)
                                ELSE t.response
        stamped == [response EXCEPT
                      !.transaction_id = request.transaction_id,
                      !.unit_id = request.unit_id]
    IN  send(c, stamped, [H EXCEPT !.store = t.store])

\* framer.processIncomingPacket(data, callback) on the bytes buf already
\* joined with data: every complete frame is decoded; a decoded request is
\* given to the callback, an undecodable frame is dropped
\* the callback: the call callback(request) of the framer, with the record
\* of the call added to the log
Callback(c, request, H) ==
    LET G == execute(c, request, H)
    IN  [G EXCEPT !.log = Append(@,
            [conn |-> c, request |-> request,
             before |-> H.store, after |-> G.store,
             sent |-> SubSeq(G.sent[c], Len(H.sent[c]) + 1,
                             Len(G.sent[c]))])]

RECURSIVE processIncomingPacket(_, _, _)
processIncomingPacket(c, buf, H) ==
    IF Len(buf) < FrameLen \/ H.escaped
    THEN [H EXCEPT !.buf = buf]
    ELSE LET request == decode(SubSeq(buf, 1, FrameLen))
             rest == SubSeq(buf, FrameLen + 1, Len(buf))
         IN  IF request = NoRequest
             THEN processIncomingPacket(c, rest, H)
             ELSE processIncomingPacket(c, rest,
                    Callback(c, request,
                             [H EXCEPT !.yielded[c] = Append(@, request)]))

\* dataReceived building a new framer for every call
InputBufferFresh(c) == << >>

\* the bytes buffered by the framer the handler c feeds (self.framer)
InputBuffer(c) == fbuf[framer[c]]

\* one framer instance held by the factory and given to every handler
AllocFramerShared(c) == 1

\* a framer instance no handler refers to (the first of them)
NewFramer ==
    CHOOSE f \in FramerIds :
        /\ \A d \in Conn : framer[d] # f
        /\ \A g \in 1 .. f - 1 : \E d \in Conn : framer[d] = g

\* connectionMade keeping the framer the handler object already has
AllocFramerLazy(c) == IF framer[c] # 0 THEN framer[c] ELSE NewFramer

\* the framer instance connectionMade stores in self.framer
AllocFramer(c) == NewFramer

\* the buffers once the handlers refer to the instances of fr: an instance
\* no handler refers to is garbage and its bytes are gone
Collect(fr) ==
    [f \in FramerIds |->
        IF \E d \in Conn : fr[d] = f THEN fbuf[f] ELSE << >>]

\* no decoder: the instance does not exist
NoDecoder == "none"

\* the decoder connectionMade constructs the framer with
FramerDecoder(c) == factory.decoder

\* the decoders once connectionMade of handler c has stored its framer and
\* the handlers refer to the instances of fr
Bind(fr, c) ==
    [f \in FramerIds |->
        IF c # 0 /\ f = fr[c] THEN FramerDecoder(c)
        ELSE IF \E d \in Conn : fr[d] = f THEN fdec[f] ELSE NoDecoder]

\* connectionLost putting a new framer in place of the handler's
LostFramerRenewed(c) == NewFramer

\* connectionLost dropping the handler's framer
LostFramerReleased(c) == 0

\* the framer instance the handler holds after connectionLost
LostFramer(c) == framer[c]

\* ------------------------------------------------------------ state
\* the byte strings one dataReceived call can deliver: at most MaxChunk
\* bytes, and no more than the behaviour's budget of MaxBytes leaves
Room == IF MaxBytes - delivered < MaxChunk THEN MaxBytes - delivered
                                          ELSE MaxChunk
Chunks == UNION { [1 .. n -> Byte] : n \in 1 .. Room }

Init ==
    /\ open = [c \in Conn |-> FALSE]
    /\ framer = [c \in Conn |-> 0]
    /\ fbuf = [f \in FramerIds |-> << >>]
    /\ store = InitStore
    /\ rx = [c \in Conn |-> << >>]
    /\ calls = [c \in Conn |-> 0]
    /\ yielded = [c \in Conn |-> << >>]
    /\ sent = [c \in Conn |-> << >>]
    /\ written = [c \in Conn |-> << >>]
    /\ log = << >>
    /\ stale = [c \in Conn |-> FALSE]
    /\ fdec = [f \in FramerIds |-> NoDecoder]
    /\ args = TcpArgs
    /\ factory = FactoryInit(TcpArgs)
    /\ delivered = 0
    /\ escaped = FALSE

\* ServerFactory.buildProtocol: a new ModbusProtocol object takes the slot
BuildProtocol(c) ==
    /\ ~open[c]
    /\ framer[c] # 0
    /\ framer' = [framer EXCEPT ![c] = 0]
    /\ fbuf' = Collect(framer')
    /\ fdec' = Bind(framer', 0)
    /\ UNCHANGED << open, store, rx, calls, yielded, sent, written, log,
                    stale, args, factory, delivered, escaped >>

\* ModbusProtocol.connectionMade
ConnectionMade(c) ==
    /\ ~open[c]
    /\ open' = [open EXCEPT ![c] = TRUE]
    /\ framer' = [framer EXCEPT ![c] = AllocFramer(c)]
    /\ fbuf' = Collect(framer')
    /\ fdec' = Bind(framer', c)
    /\ stale' = [stale EXCEPT
                    ![c] = (framer[c] # 0 /\ fbuf[framer[c]] # << >>)]
    /\ rx' = [rx EXCEPT ![c] = << >>]
    /\ calls' = [calls EXCEPT ![c] = 0]
    /\ yielded' = [yielded EXCEPT ![c] = << >>]
    /\ sent' = [sent EXCEPT ![c] = << >>]
    /\ written' = [written EXCEPT ![c] = << >>]
    /\ UNCHANGED << store, log, args, factory, delivered, escaped >>

\* ModbusProtocol.connectionLost
ConnectionLost(c) ==
    /\ open[c]
    /\ open' = [open EXCEPT ![c] = FALSE]
    /\ framer' = [framer EXCEPT ![c] = LostFramer(c)]
    /\ rx' = [rx EXCEPT ![c] = << >>]
    /\ calls' = [calls EXCEPT ![c] = 0]
    /\ yielded' = [yielded EXCEPT ![c] = << >>]
    /\ sent' = [sent EXCEPT ![c] = << >>]
    /\ written' = [written EXCEPT ![c] = << >>]
    /\ stale' = [stale EXCEPT ![c] = FALSE]
    /\ UNCHANGED << fbuf, fdec, store, log, args, factory, delivered,
                    escaped >>

\* ModbusProtocol.dataReceived
DataReceived(c, data) ==
    /\ open[c]
    /\ ~escaped
    /\ delivered + Len(data) <= MaxBytes
    /\ LET H == processIncomingPacket(c, InputBuffer(c) \o data,
                   [buf |-> << >>, store |-> store, yielded |-> yielded,
                    sent |-> sent, written |-> written, log |-> log,
                    escaped |-> FALSE])
       IN  /\ fbuf' = [fbuf EXCEPT ![framer[c]] = H.buf]
           /\ store' = H.store
           /\ yielded' = H.yielded
           /\ sent' = H.sent
           /\ written' = H.written
           /\ log' = H.log
           /\ escaped' = H.escaped
    /\ rx' = [rx EXCEPT ![c] = @ \o data]
    /\ calls' = [calls EXCEPT ![c] = IF @ = 0 THEN 1 ELSE 2]
    /\ delivered' = delivered + Len(data)
    /\ UNCHANGED << open, framer, stale, fdec, args, factory >>

Next ==
    \/ \E c \in Conn : BuildProtocol(c)
    \/ \E c \in Conn : ConnectionMade(c)
    \/ \E c \in Conn : ConnectionLost(c)
    \/ \E c \in Conn : \E data \in Chunks : DataReceived(c, data)

Spec == Init /\ [][Next]_vars

\* ---------------------------------------------- construction of the factory
\* before ModbusServerFactory(store, framer, identity) is called, for any
\* arguments
InitFactory ==
    /\ args \in [store : StoreArgs, framer : FramerArgs,
                  identity : IdentityArgs]
    /\ factory = NoFactory
    /\ open = [c \in Conn |-> FALSE]
    /\ framer = [c \in Conn |-> 0]
    /\ fbuf = [f \in FramerIds |-> << >>]
    /\ store = << >>
    /\ rx = [c \in Conn |-> << >>]
    /\ calls = [c \in Conn |-> 0]
    /\ yielded = [c \in Conn |-> << >>]
    /\ sent = [c \in Conn |-> << >>]
    /\ written = [c \in Conn |-> << >>]
    /\ log = << >>
    /\ stale = [c \in Conn |-> FALSE]
    /\ fdec = [f \in FramerIds |-> NoDecoder]
    /\ delivered = 0
    /\ escaped = FALSE

\* ModbusServerFactory.__init__: "store or ModbusServerContext()" keeps the
\* context given, or builds an empty one
Construct ==
    /\ ~factory.built
    /\ factory' = FactoryInit(args)
    /\ store' = IF args.store = None THEN << >> ELSE InitStore
    /\ UNCHANGED << open, framer, fbuf, rx, calls, yielded, sent, written,
                    log, stale, fdec, args, delivered, escaped >>

NextFactory == Construct

SpecFactory == InitFactory /\ [][NextFactory]_vars

\* ------------------------------------------------------------ claims
\* the response of request as execute must send it when the store fails
FailureResponse(request) ==
    [transaction_id |-> request.transaction_id,
     unit_id        |-> request.unit_id,
     function_code  |-> request.function_code + ExceptionFlag,
     payload        |-> << SlaveFailure >>]

IsException(message) == message.function_code >= ExceptionFlag

\* the store cannot fulfil request: its unit is missing or the operation
\* raises (neither depends on the register values)
Fails(request) == TryStore(request, store).raised

\* C1: every message handed to send carries the transaction_id and the
\* unit_id of the request it answers, on the normal and on the error path,
\* and every request given to execute has reached send.
C1_IdsCopied ==
    \A c \in Conn :
        /\ Len(sent[c]) = Len(yielded[c])
        /\ \A i \in 1 .. Len(sent[c]) :
              /\ sent[c][i].transaction_id = yielded[c][i].transaction_id
              /\ sent[c][i].unit_id = yielded[c][i].unit_id

\* a connection has got a normal and an exception response, both for
\* requests whose ids are not the defaults of a new pdu
C1_Witness ==
    \E c \in Conn : \E i, j \in 1 .. Len(sent[c]) :
        /\ IsException(sent[c][i]) /\ ~IsException(sent[c][j])
        /\ yielded[c][i].transaction_id = 1 /\ yielded[c][i].unit_id = 1
        /\ yielded[c][j].transaction_id = 1 /\ yielded[c][j].unit_id = 1

\* C2: a request whose unit is missing from the store, or whose execution
\* fails, is answered by the exception response of doException with the
\* code SlaveFailure, carrying the request's transaction_id and unit_id,
\* and that is what the transport gets.
C2_FailureIsSlaveFailure ==
    \A c \in Conn : \A i \in 1 .. Len(yielded[c]) :
        Fails(yielded[c][i]) =>
            /\ i <= Len(sent[c])
            /\ sent[c][i] = FailureResponse(yielded[c][i])
            /\ i <= Len(written[c])
            /\ written[c][i] =
                  << Header(yielded[c][i].transaction_id,
                            yielded[c][i].unit_id),
                     yielded[c][i].function_code + ExceptionFlag,
                     SlaveFailure >>

\* both causes have happened: a request for a missing unit and a failing
\* operation on a unit the store has
C2_Witness ==
    \E c, d \in Conn :
        \E i \in 1 .. Len(sent[c]) : \E j \in 1 .. Len(sent[d]) :
            /\ yielded[c][i].unit_id \notin DOMAIN store
            /\ yielded[c][i].transaction_id = 1
            /\ yielded[d][j].unit_id \in DOMAIN store
            /\ yielded[d][j].function_code = FifoFc
            /\ IsException(sent[c][i]) /\ IsException(sent[d][j])

\* a message every field of which the framer can serialize
WellFormed(message) ==
    /\ message.transaction_id \in 0 .. 1
    /\ message.unit_id \in 0 .. 1
    /\ \/ /\ message.function_code \in {ReadFc, WriteFc}
          /\ Len(message.payload) >= 1
       \/ /\ message.function_code \in
               {ReadFc + ExceptionFlag, WriteFc + ExceptionFlag,
                FifoFc + ExceptionFlag}
          /\ Len(message.payload) = 1

\* C3: no failure of the lookup or of the store operation leaves execute:
\* dataReceived never sees an exception, and every request given to execute
\* has had a well-formed response sent.
C3_NoFaultEscapes ==
    /\ ~escaped
    /\ \A c \in Conn :
          /\ Len(sent[c]) = Len(yielded[c])
          /\ \A i \in 1 .. Len(sent[c]) : WellFormed(sent[c][i])

\* a failing store operation was answered and the request after it on the
\* same connection was executed too
C3_Witness ==
    \E c \in Conn :
        /\ Len(sent[c]) >= 2
        /\ yielded[c][1].function_code = FifoFc
        /\ yielded[c][1].unit_id \in DOMAIN store
        /\ ~IsException(sent[c][2])

\* C4: the pdus written on a connection answer the requests its framer
\* yielded, one each, in the order of the requests.
C4_ResponsesInRequestOrder ==
    \A c \in Conn :
        /\ Len(written[c]) = Len(yielded[c])
        /\ \A i \in 1 .. Len(written[c]) :
              /\ written[c][i][1] = Header(yielded[c][i].transaction_id,
                                           yielded[c][i].unit_id)
              /\ written[c][i][2] % ExceptionFlag =
                    yielded[c][i].function_code

\* one dataReceived call delivered two pipelined requests with different
\* headers, the first of which failed in the store
C4_Witness ==
    \E c \in Conn :
        /\ calls[c] = 1
        /\ Len(yielded[c]) = 2
        /\ Fails(yielded[c][1]) /\ ~Fails(yielded[c][2])
        /\ yielded[c][1].transaction_id # yielded[c][2].transaction_id
        /\ Len(written[c]) = 2

\* the requests a byte string holds, frame by frame
DecodedRequests(bytes) ==
    LET n == Len(bytes) \div FrameLen
        all == [i \in 1 .. n |->
                  decode(<< bytes[FrameLen * i - 1], bytes[FrameLen * i] >>)]
    IN  SelectSeq(all, LAMBDA r : r # NoRequest)

\* the bytes of a byte string after its last complete frame
Pending(bytes) ==
    SubSeq(bytes, Len(bytes) - (Len(bytes) % FrameLen) + 1, Len(bytes))

\* the bytes the framer of handler c holds
BufOf(c) == IF framer[c] = 0 THEN << >> ELSE fbuf[framer[c]]

\* C5: connections open at the same time hold different framer instances,
\* and on each the buffered bytes and the requests yielded come from the
\* bytes delivered to that connection alone.
C5_NoCrossConnectionBleed ==
    /\ \A a, b \in Conn :
          (a # b /\ open[a] /\ open[b]) => framer[a] # framer[b]
    /\ \A c \in Conn :
          open[c] => /\ fbuf[framer[c]] = Pending(rx[c])
                     /\ yielded[c] = DecodedRequests(rx[c])

\* connection a completed a request from two deliveries while connection b
\* held a partial frame of its own, whose byte differs from a's first byte
C5_Witness ==
    \E a, b \in Conn :
        /\ a # b /\ open[a] /\ open[b]
        /\ calls[a] = 2 /\ Len(rx[a]) = 2 /\ Len(yielded[a]) = 1
        /\ calls[b] = 1 /\ Len(rx[b]) = 1 /\ fbuf[framer[b]] = rx[b]
        /\ rx[b][1] # rx[a][1]

\* C6: however the bytes of a connection are split over dataReceived
\* calls, the responses written are those of the complete decodable frames
\* among the bytes delivered so far: none for a frame whose last fragment
\* is missing, one for each complete frame.
C6_OneResponsePerCompletedFrame ==
    \A c \in Conn :
        LET requests == DecodedRequests(rx[c])
        IN  /\ Len(written[c]) = Len(requests)
            /\ \A i \in 1 .. Len(written[c]) :
                  written[c][i][1] = Header(requests[i].transaction_id,
                                           requests[i].unit_id)

\* a request arrived in two fragments and has got its one response
C6_Witness ==
    \E c \in Conn :
        /\ calls[c] = 2 /\ Len(rx[c]) = 2
        /\ Len(yielded[c]) = 1 /\ Len(written[c]) = 1

\* C7: in every step, each connection that stays open gets as many pdus
\* written to its own transport as its framer yielded requests in that
\* step, and the pdus carry the headers of those requests.
C7_ResponseOnOwnTransport ==
    [][\A c \in Conn :
         (open[c] /\ open'[c]) =>
            /\ Len(written'[c]) - Len(written[c]) =
                  Len(yielded'[c]) - Len(yielded[c])
            /\ \A i \in Len(written[c]) + 1 .. Len(written'[c]) :
                  written'[c][i][1] =
                     Header(yielded'[c][i].transaction_id,
                            yielded'[c][i].unit_id)]_vars

\* both connections are open and each has been answered, with different
\* headers
C7_Witness ==
    /\ \A c \in Conn : open[c] /\ Len(written[c]) = 1 /\ Len(yielded[c]) = 1
    /\ written[1][1][1] # written[2][1][1]

\* C8 as stated: connectionLost leaves the handler without buffered frame
\* state (the framer dropped or its buffer empty), and nothing is executed
\* or written for a closed connection.
C8_Original ==
    [][\A c \in Conn :
         /\ (open[c] /\ ~open'[c]) => BufOf(c)' = << >>
         /\ (~open[c] /\ ~open'[c]) =>
               /\ yielded'[c] = yielded[c]
               /\ written'[c] = written[c]]_vars

\* C8 amended: connectionLost changes nothing the handler holds: the
\* framer instance and the bytes it buffers stay, the store stays, nothing
\* is executed and nothing is written to another connection; and while a
\* connection is closed nothing is executed or written for it and the
\* bytes its handler keeps are not touched.
C8_LostKeepsFramer ==
    [][\A c \in Conn :
         /\ (open[c] /\ ~open'[c]) =>
               /\ framer'[c] = framer[c]
               /\ fbuf' = fbuf
               /\ store' = store
               /\ log' = log
               /\ \A d \in Conn \ {c} :
                     yielded'[d] = yielded[d] /\ written'[d] = written[d]
         /\ (~open[c] /\ ~open'[c]) =>
               /\ yielded'[c] = yielded[c]
               /\ sent'[c] = sent[c]
               /\ written'[c] = written[c]
               /\ \A i \in Len(log) + 1 .. Len(log') : log'[i].conn # c
               /\ framer'[c] # 0 => BufOf(c)' = BufOf(c)]_vars

\* a closed handler still holds its framer with a partial frame in it
C8_Witness ==
    \E c \in Conn :
        /\ ~open[c] /\ framer[c] # 0
        /\ fbuf[framer[c]] # << >>

\* C9: connectionMade gives the handler a framer instance never used
\* before, with nothing buffered, and the requests a connection yields
\* after a delivery are the requests of the bytes delivered since that
\* connectionMade, with nothing of an earlier connection in front.
C9_NoPartialFrameSurvivesReconnect ==
    [][\A c \in Conn :
         /\ (~open[c] /\ open'[c]) =>
               /\ \A d \in Conn : framer[d] # framer'[c]
               /\ fbuf'[framer'[c]] = << >>
         /\ (open[c] /\ open'[c] /\ rx'[c] # rx[c]) =>
               /\ yielded'[c] = DecodedRequests(rx'[c])
               /\ BufOf(c)' = Pending(rx'[c])]_vars

\* a handler object that lost its connection with a partial frame
\* buffered was opened again and has yielded a request since
C9_Witness ==
    \E c \in Conn :
        /\ stale[c] /\ open[c]
        /\ Len(yielded[c]) >= 1

\* number of complete frames of a byte string the decoder rejects
Undecodable(bytes) ==
    Cardinality({i \in 1 .. Len(bytes) \div FrameLen :
                   decode(<< bytes[FrameLen * i - 1],
                             bytes[FrameLen * i] >>) = NoRequest})

\* C10: a connection never has more pdus written than requests yielded by
\* its framer, and a frame the framer dropped has no pdu: the pdus written
\* and the frames dropped together never exceed the frames delivered.
C10_WritesOnlyForYieldedRequests ==
    \A c \in Conn :
        /\ Len(written[c]) <= Len(yielded[c])
        /\ Len(written[c]) + Undecodable(rx[c]) <= Len(rx[c]) \div FrameLen

\* the framer dropped an undecodable frame, nothing was written for it,
\* and the request behind it was answered
C10_Witness ==
    \E c \in Conn :
        /\ Len(rx[c]) = 2 * FrameLen
        /\ decode(SubSeq(rx[c], 1, FrameLen)) = NoRequest
        /\ Len(yielded[c]) = 1 /\ Len(written[c]) = 1

\* what handler b would write, buffer and leave in the store if the bytes d
\* reached it with buf buffered and the store st
Answer(b, buf, st, d) ==
    LET none == [c \in Conn |-> << >>]
        H == processIncomingPacket(b, buf \o d,
                [buf |-> << >>, store |-> st, yielded |-> none,
                 sent |-> none, written |-> none, log |-> << >>,
                 escaped |-> FALSE])
    IN  [pdus |-> H.written[b], buf |-> H.buf, store |-> H.store,
         escaped |-> H.escaped]

\* the byte strings of at most one frame
Probes == UNION { [1 .. n -> Byte] : n \in 1 .. FrameLen }

\* the step executed requests of connection a only, and all of them failed
\* in the store
FailureOn(a) ==
    /\ Len(log') > Len(log)
    /\ \A i \in Len(log) + 1 .. Len(log') :
          /\ log'[i].conn = a
          /\ TryStore(log'[i].request, log'[i].before).raised

\* C11: a step in which requests of connection a fail in the store leaves
\* every other connection b as it was: same framer, same buffered bytes,
\* nothing written to it, no exception raised into the reactor; and
\* whatever bytes b gets next, it is answered as it would have been
\* answered before the failure.
C11_FailureStaysOnItsConnection ==
    [][\A a \in Conn :
         FailureOn(a) =>
            /\ ~escaped'
            /\ \A b \in Conn \ {a} :
                  /\ open'[b] = open[b]
                  /\ framer'[b] = framer[b]
                  /\ BufOf(b)' = BufOf(b)
                  /\ written'[b] = written[b]
                  /\ \A d \in Probes :
                        Answer(b, BufOf(b)', store', d) =
                        Answer(b, BufOf(b), store, d)]_vars

\* the last call of execute failed on connection a, after a write had
\* changed the store, while connection b is open
C11_Witness ==
    \E a, b \in Conn :
        /\ a # b /\ open[a] /\ open[b]
        /\ Len(log) = 2
        /\ log[1].after # log[1].before
        /\ log[2].conn = a
        /\ TryStore(log[2].request, log[2].before).raised
        /\ Len(log[2].sent) = 1 /\ IsException(log[2].sent[1])

\* the call e of execute wrote / read the registers of a unit of the store
WroteUnit(e) ==
    /\ e.request.function_code = WriteFc
    /\ e.request.unit_id \in DOMAIN e.before
ReadUnit(e) ==
    /\ e.request.function_code = ReadFc
    /\ e.request.unit_id \in DOMAIN e.before

\* C12: all handlers execute against the one store of the factory: every
\* call of execute finds the store as the call before it left it, on
\* whatever connection that was; a read returns the value of the latest
\* write to the unit, whichever connection wrote; and no two handlers
\* refer to the same framer instance.
C12_OneStoreManyFramers ==
    /\ \A i \in 1 .. Len(log) :
          log[i].before = IF i = 1 THEN InitStore ELSE log[i - 1].after
    /\ store = IF log = << >> THEN InitStore ELSE log[Len(log)].after
    /\ \A i, j \in 1 .. Len(log) :
          ( /\ i < j
            /\ WroteUnit(log[i]) /\ ReadUnit(log[j])
            /\ log[i].request.unit_id = log[j].request.unit_id
            /\ \A k \in i + 1 .. j - 1 : ~WroteUnit(log[k]) )
          => /\ Len(log[i].sent) = 1 /\ Len(log[j].sent) = 1
             /\ log[j].sent[1].payload[1] = log[i].sent[1].payload[1]
    /\ \A a, b \in Conn :
          (a # b /\ framer[a] # 0 /\ framer[b] # 0) => framer[a] # framer[b]

\* a write on one connection was followed by a read on the other, which
\* got the written value, not the value the factory's store started with
C12_Witness ==
    /\ Len(log) = 2
    /\ log[1].conn # log[2].conn
    /\ WroteUnit(log[1]) /\ ReadUnit(log[2])
    /\ log[2].sent[1].payload[1] # InitStore[1][1]
    /\ framer[1] # 0 /\ framer[2] # 0

\* C13: two calls of execute with the same request, the store not changed
\* from the start of the first to the start of the second, send the same
\* message (transaction_id, unit_id, function code or exception marker,
\* payload or error code) and so the same pdu, on whatever connections
\* the two calls are made.
C13_SameRequestSameResponse ==
    \A i, j \in 1 .. Len(log) :
        ( /\ i < j
          /\ log[i].request = log[j].request
          /\ \A k \in i .. j - 1 : log[k].after = log[k].before )
        => /\ Len(log[i].sent) = 1 /\ Len(log[j].sent) = 1
           /\ log[j].sent[1] = log[i].sent[1]
           /\ buildPacket(log[j].sent[1]) = buildPacket(log[i].sent[1])

\* one connection got the same read request twice and then the same
\* response twice; its ids are not those of a new pdu
C13_Witness ==
    /\ Len(log) = 2
    /\ log[1].conn = log[2].conn
    /\ log[1].request = log[2].request
    /\ ReadUnit(log[1])
    /\ log[1].request.transaction_id = 1
    /\ log[1].sent = log[2].sent /\ Len(log[1].sent) = 1

\* C14: the factory is built for every choice of arguments, and its
\* control block has the fields of the identity argument exactly when the
\* argument is a ModbusDeviceIdentification; for None and for an object of
\* any other type it has the empty default identity.
C14_IdentityOverride ==
    factory.built =>
        /\ IsIdentification(args.identity) =>
              /\ factory.control.Identity.VendorName = args.identity.VendorName
              /\ factory.control.Identity.ProductCode =
                    args.identity.ProductCode
        /\ ~IsIdentification(args.identity) =>
              factory.control.Identity = DefaultIdentity

\* a factory built with a device identification that is not empty, and
\* whose control block shows it
C14_Witness ==
    /\ factory.built
    /\ IsIdentification(args.identity)
    /\ args.identity.VendorName = "acme"
    /\ factory.control.Identity.VendorName = "acme"
    /\ factory.control.Identity # DefaultIdentity

\* the store after the first n requests of the log have been executed one
\* after the other, each to completion, on the store the factory started
\* with
RECURSIVE SerialStore(_)
SerialStore(n) ==
    IF n = 0 THEN InitStore
    ELSE TryStore(log[n].request, SerialStore(n - 1)).store

\* the message a request is answered with when it is executed alone on the
\* store st
SerialAnswer(request, st) ==
    LET t == TryStore(request, st)
    IN  IF t.raised THEN FailureResponse(request)
        ELSE [t.response EXCEPT !.transaction_id = request.transaction_id,
                                !.unit_id = request.unit_id]

\* C15: the callbacks of all connections behave as if executed one at a
\* time in the order they were called: each request was answered with
\* exactly the message a serial execution of the requests before it
\* leads to, and the store is the store that serial execution ends with.
C15_SerialOrder ==
    /\ \A i \in 1 .. Len(log) :
          log[i].sent = << SerialAnswer(log[i].request, SerialStore(i - 1)) >>
    /\ store = SerialStore(Len(log))

\* two connections each wrote the same register; the second write was
\* applied to the value the first had left, not to the initial value
C15_Witness ==
    /\ Len(log) = 2
    /\ log[1].conn # log[2].conn
    /\ WroteUnit(log[1]) /\ WroteUnit(log[2])
    /\ log[1].request.unit_id = log[2].request.unit_id
    /\ log[2].sent[1].payload # log[1].sent[1].payload
    /\ log[1].after # InitStore /\ log[2].after # log[1].after

\* C16: when the store has the unit of the request and request.execute
\* succeeds on it, the one message sent has the function code and the
\* payload of the response request.execute returned, the transaction_id
\* and unit_id of the request, and no other field.
C16_SuccessResponseIsStoreResponse ==
    \A i \in 1 .. Len(log) :
        LET e == log[i]
            u == e.request.unit_id
        IN  (u \in DOMAIN e.before
             /\ ~RequestExecute(e.request, e.before[u]).raised)
            => LET r == RequestExecute(e.request, e.before[u]).response
               IN  /\ Len(e.sent) = 1
                   /\ e.sent[1].function_code = r.function_code
                   /\ e.sent[1].payload = r.payload
                   /\ e.sent[1].transaction_id = e.request.transaction_id
                   /\ e.sent[1].unit_id = e.request.unit_id
                   /\ DOMAIN e.sent[1] = DOMAIN r

\* unit 1 holds the registers 10 and 20; a read with transaction_id 1 was
\* answered with the values 10, 20 under transaction_id 1 and unit_id 1,
\* neither of them the default id
C16_Witness ==
    \E i \in 1 .. Len(log) :
        /\ log[i].before[1] = << 10, 20 >>
        /\ log[i].request =
              [transaction_id |-> 1, unit_id |-> 1, function_code |-> ReadFc]
        /\ log[i].sent = << [transaction_id |-> 1, unit_id |-> 1,
                             function_code |-> ReadFc,
                             payload |-> << 10, 20 >>] >>
        /\ 1 # DefaultId

\* the bytes delivered to connection c in the step
Delivered(c) == SubSeq(rx'[c], Len(rx[c]) + 1, Len(rx'[c]))

\* C17: connectionMade stores in the handler a framer instance no handler
\* held, constructed with the decoder of the factory, and executes no
\* request and writes nothing; while the connection is open no step
\* (dataReceived with its execute and send, connectionLost) puts another
\* framer or another decoder in its place; and each dataReceived is
\* processed by that framer: what it buffered joined with the new bytes
\* gives the requests yielded and the bytes left, and no other framer's
\* buffer changes.
C17_FramerFixedFromConnectionMade ==
    [][\A c \in Conn :
         /\ (~open[c] /\ open'[c]) =>
               /\ framer'[c] # 0
               /\ \A d \in Conn : framer[d] # framer'[c]
               /\ fdec'[framer'[c]] = factory.decoder
               /\ store' = store /\ log' = log
               /\ yielded'[c] = << >> /\ sent'[c] = << >>
               /\ written'[c] = << >>
               /\ \A d \in Conn \ {c} :
                     /\ yielded'[d] = yielded[d]
                     /\ written'[d] = written[d]
         /\ open[c] =>
               /\ framer'[c] = framer[c]
               /\ fdec'[framer[c]] = fdec[framer[c]]
         /\ (open[c] /\ open'[c] /\ rx'[c] # rx[c]) =>
               LET joined == fbuf[framer[c]] \o Delivered(c)
               IN  /\ fbuf'[framer[c]] = Pending(joined)
                   /\ yielded'[c] = yielded[c] \o DecodedRequests(joined)
                   /\ \A f \in FramerIds \ {framer[c]} :
                         fbuf'[f] = fbuf[f]]_vars

\* a connection got two deliveries, the second completing the frame the
\* first began, on a framer that has the decoder of the factory, as has
\* the different framer of the other handler
C17_Witness ==
    \E c, d \in Conn :
        /\ open[c] /\ calls[c] = 2
        /\ Len(rx[c]) = FrameLen /\ Len(yielded[c]) = 1
        /\ framer[d] # 0 /\ framer[d] # framer[c]
        /\ fdec[framer[c]] = factory.decoder
        /\ fdec[framer[d]] = fdec[framer[c]]

\* the call e of execute was for a unit the store has no entry for
MissingUnit(e) == e.request.unit_id \notin DOMAIN e.before

\* C18: a call of execute for a unit the store has no entry for leaves the
\* store as it found it, units and registers, and sends one message, the
\* SlaveFailure response to its request; and a step in which every
\* request executed is of that kind changes nothing but the histories of
\* the connection that got the bytes: the store is unchanged and one pdu
\* per request, built from its SlaveFailure response, is written to that
\* connection and to no other.
C18_MissingUnitTouchesNothing ==
    [][LET new == Len(log) + 1 .. Len(log')
       IN  /\ \A i \in new :
                 MissingUnit(log'[i]) =>
                    /\ log'[i].after = log'[i].before
                    /\ log'[i].sent = << FailureResponse(log'[i].request) >>
           /\ (new # {} /\ \A i \in new : MissingUnit(log'[i])) =>
                 /\ store' = store
                 /\ framer' = framer /\ open' = open
                 /\ \A c \in Conn :
                       IF c = log'[Len(log')].conn
                       THEN /\ Len(written'[c]) = Len(written[c]) + Len(log')
                                                    - Len(log)
                            /\ \A i \in new :
                                  /\ log'[i].conn = c
                                  /\ written'[c][Len(written[c]) + i - Len(log)]
                                        = buildPacket(
                                            FailureResponse(log'[i].request))
                       ELSE /\ written'[c] = written[c]
                            /\ sent'[c] = sent[c]
                            /\ yielded'[c] = yielded[c]
                            /\ BufOf(c)' = BufOf(c)]_vars

\* after a write had changed the store, a request for a unit the store
\* does not have was answered with the SlaveFailure pdu, and the store is
\* as the write left it
C18_Witness ==
    /\ Len(log) = 2
    /\ log[1].after # InitStore
    /\ MissingUnit(log[2])
    /\ store = log[1].after
    /\ LET c == log[2].conn
       IN  /\ open[c] /\ written[c] # << >>
           /\ written[c][Len(written[c])] =
                 buildPacket(FailureResponse(log[2].request))
           /\ written[c][Len(written[c])][2] >= ExceptionFlag

====
